---- MODULE Spec2Model ----
(***************************************************************************)
(* Incremental 3-D Delaunay tetrahedralization (Bowyer-Watson) of          *)
(* src/main.js: classes Tetrahedron and Delaunay3D, and the page handlers  *)
(* that drive them (setupSimulation, doNextStep, runAllSteps).             *)
(*                                                                         *)
(* Coordinates are integers (the lattice points of the bounding box).  On  *)
(* such inputs every quantity the code computes is a rational number; the  *)
(* model keeps the numerators and the common denominator and evaluates the *)
(* code's comparisons exactly; double rounding can differ from that only   *)
(* where a point lies exactly on a circumsphere or in the plane of a face. *)
(* The three.js scene graph, the render loop and the text of the page are  *)
(* left out: no handler reads them back.                                   *)
(***************************************************************************)
EXTENDS Integers, Sequences, FiniteSets, TLC

VARIABLES
    tetrahedra,         \* delaunay.tetrahedra: the live tetrahedra, in array order
    inserted,           \* the points passed to delaunay.addPoint so far, in call order
    ret,                \* what the latest delaunay.addPoint call returned
    triangulation,      \* what the latest delaunay.getTriangulation call returned
    points,             \* the global points array
    pointIndex,         \* the global pointIndex
    started,            \* setupSimulation has run (points and delaunay are defined)
    nextBtnDisabled,    \* nextBtn.disabled
    runAllBtnDisabled,  \* runAllBtn.disabled
    timers,             \* number of pending setTimeout(next, 200) callbacks
    userStepped         \* Next or Run All was clicked since the latest setupSimulation

vars == <<tetrahedra, inserted, ret, triangulation, points, pointIndex, started,
          nextBtnDisabled, runAllBtnDisabled, timers, userStepped>>

uiVars == <<points, pointIndex, started, nextBtnDisabled, runAllBtnDisabled,
            timers, userStepped>>

---------------------------------------------------------------------------
(* Program constants and model bounds *)

BOX_SIZE == 10

\* number of addPoint calls explored on one Delaunay3D object
MaxInserts == 4

\* largest value of the points slider explored by the page model
MaxPoints == 2

\* largest number of pending Run-All timeouts explored by the page model
MaxTimers == 2

---------------------------------------------------------------------------
(* THREE.Vector3, as far as the classes use it.  id stands for the object   *)
(* identity (Array.prototype.includes compares references); x, y, z are the *)
(* coordinate values (Vector3.equals and the face keys compare those).      *)

Vector3(x, y, z, id) == [x |-> x, y |-> y, z |-> z, id |-> id]

Coords(p) == <<p.x, p.y, p.z>>

\* Vector3.equals
equals(p, q) == p.x = q.x /\ p.y = q.y /\ p.z = q.z

\* a.clone().sub(d)
sub(a, d) == [x |-> a.x - d.x, y |-> a.y - d.y, z |-> a.z - d.z]

\* Vector3.lengthSq
lengthSq(v) == v.x * v.x + v.y * v.y + v.z * v.z

\* Matrix3.set(a_, b_, c_ as rows).determinant()
determinant(a, b, c) ==
    a.x * (b.y * c.z - b.z * c.y)
  - a.y * (b.x * c.z - b.z * c.x)
  + a.z * (b.x * c.y - b.y * c.x)

---------------------------------------------------------------------------
(* class Tetrahedron *)

\* calcCircumsphere.  The code sets circumcenter = d + (x, y, z) with
\* (x, y, z) = num * (0.5 / det); the model keeps num and det, so that the
\* circumcenter is the exact rational point d + num / (2 * det).  det = 0
\* (|det| < 1e-12 on integer input) is the degenerate case: circumcenter =
\* null, radiusSq = Infinity.
calcCircumsphere(pts) ==
    LET a == pts[1]
        b == pts[2]
        c == pts[3]
        d == pts[4]
        a_ == sub(a, d)
        b_ == sub(b, d)
        c_ == sub(c, d)
        A == lengthSq(a_)
        B == lengthSq(b_)
        C == lengthSq(c_)
        det == determinant(a_, b_, c_)
    IN  IF det = 0
        THEN [points |-> pts, det |-> 0, num |-> [x |-> 0, y |-> 0, z |-> 0]]
        ELSE [points |-> pts,
              det |-> det,
              num |-> [x |-> A * (b_.y * c_.z - c_.y * b_.z)
                           - B * (a_.y * c_.z - c_.y * a_.z)
                           + C * (a_.y * b_.z - b_.y * a_.z),
                       y |-> A * (b_.z * c_.x - c_.z * b_.x)
                           - B * (a_.z * c_.x - c_.z * a_.x)
                           + C * (a_.z * b_.x - b_.z * a_.x),
                       z |-> A * (b_.x * c_.y - c_.x * b_.y)
                           - B * (a_.x * c_.y - c_.x * a_.y)
                           + C * (a_.x * b_.y - b_.x * a_.y)]]

\* constructor(p1, p2, p3, p4)
Tetrahedron(p1, p2, p3, p4) == calcCircumsphere(<<p1, p2, p3, p4>>)

\* the circumcenter field is null
circumcenterIsNull(tetra) == tetra.det = 0

\* p.distanceToSquared(this.circumcenter) < this.radiusSq, where radiusSq is
\* circumcenter.distanceToSquared(points[0]).  With c = d + num / (2 det):
\*   |p - c|^2 - |a - c|^2 = SUM (p_i - a_i) * (p_i + a_i - 2 c_i)
\* and det times that difference is the integer
\*   SUM (p_i - a_i) * (det * (p_i + a_i - 2 d_i) - num_i),
\* so the difference is negative iff that integer and det have opposite signs.
distanceDifference(tetra, p) ==
    LET a == tetra.points[1]
        d == tetra.points[4]
    IN    (p.x - a.x) * (tetra.det * (p.x + a.x - 2 * d.x) - tetra.num.x)
        + (p.y - a.y) * (tetra.det * (p.y + a.y - 2 * d.y) - tetra.num.y)
        + (p.z - a.z) * (tetra.det * (p.z + a.z - 2 * d.z) - tetra.num.z)

\* mutant: the comparison is not strict (<= instead of <)
circumsphereContains_notStrict(tetra, p) ==
    IF circumcenterIsNull(tetra)
    THEN FALSE
    ELSE \/ tetra.det > 0 /\ distanceDifference(tetra, p) <= 0
         \/ tetra.det < 0 /\ distanceDifference(tetra, p) >= 0

circumsphereContains(tetra, p) ==
    IF circumcenterIsNull(tetra)
    THEN FALSE
    ELSE \/ tetra.det > 0 /\ distanceDifference(tetra, p) < 0
         \/ tetra.det < 0 /\ distanceDifference(tetra, p) > 0

\* containsPoint(p)
containsPoint(tetra, p) == \E i \in 1..4 : equals(tetra.points[i], p)

\* mutant: the fourth face repeats the first
getFaces_repeated(tetra) ==
    LET p == tetra.points
    IN  << [a |-> p[1], b |-> p[2], c |-> p[3]], [a |-> p[1], b |-> p[2], c |-> p[4]],
           [a |-> p[1], b |-> p[3], c |-> p[4]], [a |-> p[1], b |-> p[2], c |-> p[3]] >>

\* getFaces()
getFaces(tetra) ==
    LET p == tetra.points
    IN  << [a |-> p[1], b |-> p[2], c |-> p[3]], [a |-> p[1], b |-> p[2], c |-> p[4]],
           [a |-> p[1], b |-> p[3], c |-> p[4]], [a |-> p[2], b |-> p[3], c |-> p[4]] >>

---------------------------------------------------------------------------
(* The face key of addPoint:                                                *)
(*   [face.a, face.b, face.c].map(p => `${p.x},${p.y},${p.z}`).sort()       *)
(*                           .join('|')                                     *)
(* Strings are sequences of UTF-16 code units; sort() without a comparator  *)
(* orders strings by code units.                                            *)

Minus == <<45>>
Comma == <<44>>
Bar == <<124>>

RECURSIVE Digits(_)
Digits(n) == IF n < 10 THEN <<48 + n>> ELSE Digits(n \div 10) \o <<48 + (n % 10)>>

\* Number to string, for an integer-valued number
NumberToString(n) == IF n < 0 THEN Minus \o Digits(-n) ELSE Digits(n)

\* `${p.x},${p.y},${p.z}`
pointString(p) ==
    NumberToString(p.x) \o Comma \o NumberToString(p.y) \o Comma \o NumberToString(p.z)

\* s < t in the order of String comparison (code units, a proper prefix first)
RECURSIVE stringLess(_, _)
stringLess(s, t) ==
    IF t = <<>> THEN FALSE
    ELSE IF s = <<>> THEN TRUE
    ELSE IF Head(s) # Head(t) THEN Head(s) < Head(t)
    ELSE stringLess(Tail(s), Tail(t))

\* insert one string into a sorted array
RECURSIVE sortedInsert(_, _)
sortedInsert(sorted, s) ==
    IF sorted = <<>> THEN <<s>>
    ELSE IF stringLess(s, Head(sorted)) THEN <<s>> \o sorted
    ELSE <<Head(sorted)>> \o sortedInsert(Tail(sorted), s)

\* Array.prototype.sort() on an array of strings
RECURSIVE sort(_)
sort(strs) == IF strs = <<>> THEN <<>> ELSE sortedInsert(sort(Tail(strs)), Head(strs))

\* Array.prototype.join('|')
RECURSIVE join(_)
join(strs) ==
    IF strs = <<>> THEN <<>>
    ELSE IF Len(strs) = 1 THEN strs[1]
    ELSE strs[1] \o Bar \o join(Tail(strs))

faceKey(face) == join(sort(<<pointString(face.a), pointString(face.b), pointString(face.c)>>))

---------------------------------------------------------------------------
(* class Delaunay3D *)

\* this.superPoints of constructor(size)
superPoints(size) ==
    LET s == size
    IN  << Vector3(-s, -s, -s, -1), Vector3(s, -s, 0, -2),
           Vector3(0, s, -s, -3), Vector3(0, -s, s, -4) >>

\* this.tetrahedra after constructor(size)
Delaunay3D(size) ==
    LET sp == superPoints(size)
    IN  << Tetrahedron(sp[1], sp[2], sp[3], sp[4]) >>

\* the global delaunay is always built as new Delaunay3D(BOX_SIZE * 2)
delaunaySuperPoints == superPoints(BOX_SIZE * 2)

\* the faces visited by badTetras.forEach(tetra => tetra.getFaces().forEach(..)),
\* in visiting order: face n is face (n-1) % 4 of bad tetrahedron (n-1) \div 4
allFaces(tetras) ==
    [n \in 1..(4 * Len(tetras)) |-> getFaces(tetras[((n - 1) \div 4) + 1])[((n - 1) % 4) + 1]]

\* faceMap after the loop
\*   faceMap.has(key) ? faceMap.delete(key) : faceMap.set(key, face)
\* has run over the faces, as its entries in insertion order.  Each visit of a
\* key flips its presence: set() is only reached when the key is absent, so it
\* always adds a new last entry, holding the face of that visit.  Hence the
\* keys left are those visited an odd number of times, each with the face of
\* its last visit, in the order of their last visits.
toggleFaces(faces) ==
    LET keys == [i \in 1..Len(faces) |-> faceKey(faces[i])] \o <<>>  \* each key once
        visits(i) == Cardinality({j \in 1..Len(faces) : keys[j] = keys[i]})
        isLastVisit(i) == \A j \in (i + 1)..Len(faces) : keys[j] # keys[i]
        left == {i \in 1..Len(faces) : isLastVisit(i) /\ visits(i) % 2 = 1}
        nth(k) == CHOOSE i \in left : Cardinality({j \in left : j < i}) = k - 1
    IN  [k \in 1..Cardinality(left) |-> [key |-> keys[nth(k)], face |-> faces[nth(k)]]]

\* faceMap.forEach(face => cavityFaces.push(face))
mapValues(map) == [i \in 1..Len(map) |-> map[i].face]

\* the new tetrahedron built on one cavity face
newTetraOn(point, face) == Tetrahedron(point, face.a, face.b, face.c)

\* mutant: the bad tetrahedra are not filtered out of this.tetrahedra
addPoint_keepsBad(live, point) ==
    LET badTetras == SelectSeq(live, LAMBDA tetra : circumsphereContains(tetra, point))
        cavityFaces == mapValues(toggleFaces(allFaces(badTetras)))
        newTetras == [i \in 1..Len(cavityFaces) |-> newTetraOn(point, cavityFaces[i])]
    IN  [badTetras |-> badTetras, cavityFaces |-> cavityFaces, newTetras |-> newTetras,
         tetrahedra |-> live \o newTetras]

\* addPoint(point): the returned delta and this.tetrahedra afterwards
addPoint(live, point) ==
    LET badTetras == SelectSeq(live, LAMBDA tetra : circumsphereContains(tetra, point))
        kept == SelectSeq(live, LAMBDA tetra : ~circumsphereContains(tetra, point))
        cavityFaces == mapValues(toggleFaces(allFaces(badTetras)))
        newTetras == [i \in 1..Len(cavityFaces) |-> newTetraOn(point, cavityFaces[i])]
    IN  [badTetras |-> badTetras, cavityFaces |-> cavityFaces, newTetras |-> newTetras,
         tetrahedra |-> kept \o newTetras]

\* this.superPoints.includes(p): the same object
isSuperPoint(p) == \E i \in 1..4 : delaunaySuperPoints[i].id = p.id

\* mutant: every instead of some
getTriangulation_every(live) ==
    SelectSeq(live, LAMBDA tetra : ~(\A i \in 1..4 : isSuperPoint(tetra.points[i])))

\* getTriangulation()
getTriangulation(live) ==
    SelectSeq(live, LAMBDA tetra : ~(\E i \in 1..4 : isSuperPoint(tetra.points[i])))

\* no addPoint call has returned yet
NoDelta == [called |-> FALSE, badTetras |-> <<>>, cavityFaces |-> <<>>, newTetras |-> <<>>]

\* no getTriangulation result is current
NoQuery == [valid |-> FALSE, tetras |-> <<>>]

---------------------------------------------------------------------------
(* The Delaunay3D object driven through its interface: any sequence of      *)
(* addPoint calls with points of the bounding box, and getTriangulation     *)
(* queries in between.                                                      *)

\* the integer points of the bounding box [-BOX_SIZE/2, BOX_SIZE/2]^3 in which
\* setupSimulation generates the points
BoxLattice ==
    LET half == BOX_SIZE \div 2
    IN  (-half..half) \X (-half..half) \X (-half..half)

\* the points a caller inserts in Spec: points of the bounding box in general
\* position (inserting them in any order builds no degenerate tetrahedron and
\* puts no point exactly on a circumsphere)
Pool == { <<5, -5, -5>>, <<4, -4, 4>>, <<2, -4, -3>>, <<4, 3, -4>>, <<5, -3, 5>> }

\* a point of the bounding box in special position: it is coplanar with a
\* face of the super-tetrahedron (inserting it builds a degenerate
\* tetrahedron), and a point of Pool lies exactly on the circumsphere of a
\* tetrahedron built on it
SpecialPoints == { <<0, -3, 3>> }

Init ==
    /\ tetrahedra = Delaunay3D(BOX_SIZE * 2)
    /\ inserted = <<>>
    /\ ret = NoDelta
    /\ triangulation = NoQuery
    /\ points = <<>>
    /\ pointIndex = 0
    /\ started = FALSE
    /\ nextBtnDisabled = FALSE
    /\ runAllBtnDisabled = FALSE
    /\ timers = 0
    /\ userStepped = FALSE

\* one call delaunay.addPoint(point)
AddPointCall(point) ==
    LET r == addPoint(tetrahedra, point)
    IN  /\ tetrahedra' = r.tetrahedra
        /\ ret' = [called |-> TRUE, badTetras |-> r.badTetras,
                   cavityFaces |-> r.cavityFaces, newTetras |-> r.newTetras]
        /\ inserted' = Append(inserted, point)
        /\ triangulation' = NoQuery

\* a caller inserts one more point of the set, distinct from those inserted
AddPointFrom(candidates) ==
    /\ Len(inserted) < MaxInserts
    /\ \E c \in candidates :
          /\ \A i \in 1..Len(inserted) : Coords(inserted[i]) # c
          /\ AddPointCall(Vector3(c[1], c[2], c[3], Len(inserted) + 1))
    /\ UNCHANGED uiVars

AddPoint == AddPointFrom(Pool)

AddAnyPoint == AddPointFrom(Pool \cup SpecialPoints)

\* the first insertion into a fresh triangulation, with any point of the box
AddFirstPoint ==
    /\ inserted = <<>>
    /\ \E c \in BoxLattice : AddPointCall(Vector3(c[1], c[2], c[3], 1))
    /\ UNCHANGED uiVars

\* one call delaunay.getTriangulation()
GetTriangulation ==
    /\ triangulation' = [valid |-> TRUE, tetras |-> getTriangulation(tetrahedra)]
    /\ UNCHANGED <<tetrahedra, inserted, ret>>
    /\ UNCHANGED uiVars

Next == AddPoint \/ GetTriangulation

Spec == Init /\ [][Next]_vars

\* the same, with the points in special position allowed too
NextSpecial == AddAnyPoint \/ GetTriangulation

SpecSpecial == Init /\ [][NextSpecial]_vars

\* a fresh triangulation and its first insertion, over the whole box
NextFirst == AddFirstPoint

SpecFirst == Init /\ [][NextFirst]_vars

---------------------------------------------------------------------------
(* The page: the Start, Next and Run All buttons and the Run-All timeouts.  *)
(* Handlers run to completion, one at a time.                               *)

\* the points setupSimulation may generate in the page model
UIPool == { <<5, -5, -5>>, <<4, -4, 4>>, <<2, -4, -3>> }

\* the arrays of numPoints distinct generated points; the i-th is object i
PointArrays(numPoints) ==
    { arr \in [1..numPoints -> UIPool] : \A i, j \in 1..numPoints : arr[i] = arr[j] => i = j }

\* the page after init(): no simulation yet; whether the Next and Run All
\* buttons start disabled is set by the page's markup
UIInit ==
    /\ tetrahedra = <<>>
    /\ inserted = <<>>
    /\ ret = NoDelta
    /\ triangulation = NoQuery
    /\ points = <<>>
    /\ pointIndex = 0
    /\ started = FALSE
    /\ nextBtnDisabled \in BOOLEAN
    /\ runAllBtnDisabled \in BOOLEAN
    /\ timers = 0
    /\ userStepped = FALSE

\* click on Start / Restart.  cancelAnimationFrame stops the render loop
\* only: pending setTimeout(next) callbacks stay pending.
setupSimulation ==
    /\ \E numPoints \in 1..MaxPoints : \E arr \in PointArrays(numPoints) :
          points' = [i \in 1..numPoints |-> Vector3(arr[i][1], arr[i][2], arr[i][3], i)]
    /\ pointIndex' = 0
    /\ tetrahedra' = Delaunay3D(BOX_SIZE * 2)
    /\ inserted' = <<>>
    /\ ret' = NoDelta
    /\ triangulation' = [valid |-> TRUE, tetras |-> getTriangulation(tetrahedra')]
    /\ started' = TRUE
    /\ nextBtnDisabled' = FALSE
    /\ runAllBtnDisabled' = FALSE
    /\ userStepped' = FALSE
    /\ UNCHANGED timers

\* mutant: pointIndex++ is missing, so every step inserts points[0] again
doNextStep_noIncrement(nextDisabled, runAllDisabled) ==
    IF pointIndex >= Len(points)
    THEN /\ nextBtnDisabled' = TRUE
         /\ runAllBtnDisabled' = TRUE
         /\ triangulation' = [valid |-> TRUE, tetras |-> getTriangulation(tetrahedra)]
         /\ UNCHANGED <<tetrahedra, inserted, ret, pointIndex>>
    ELSE /\ AddPointCall(points[pointIndex + 1])
         /\ pointIndex' = pointIndex
         /\ nextBtnDisabled' = nextDisabled
         /\ runAllBtnDisabled' = runAllDisabled

\* doNextStep(), called with the buttons' disabled flags as they are then
doNextStep(nextDisabled, runAllDisabled) ==
    IF pointIndex >= Len(points)
    THEN /\ nextBtnDisabled' = TRUE
         /\ runAllBtnDisabled' = TRUE
         /\ triangulation' = [valid |-> TRUE, tetras |-> getTriangulation(tetrahedra)]
         /\ UNCHANGED <<tetrahedra, inserted, ret, pointIndex>>
    ELSE /\ AddPointCall(points[pointIndex + 1])
         /\ pointIndex' = pointIndex + 1
         /\ nextBtnDisabled' = nextDisabled
         /\ runAllBtnDisabled' = runAllDisabled

\* click on Next before any Start: points is undefined, doNextStep throws
NextClickBeforeStart ==
    /\ ~nextBtnDisabled
    /\ ~started
    /\ UNCHANGED vars

\* click on Next
NextClick ==
    /\ ~nextBtnDisabled
    /\ started
    /\ doNextStep(nextBtnDisabled, runAllBtnDisabled)
    /\ userStepped' = TRUE
    /\ UNCHANGED <<points, started, timers>>

\* click on Run All before any Start: the buttons are disabled, then
\* doNextStep throws inside next() before setTimeout is reached
RunAllClickBeforeStart ==
    /\ ~runAllBtnDisabled
    /\ ~started
    /\ nextBtnDisabled' = TRUE
    /\ runAllBtnDisabled' = TRUE
    /\ UNCHANGED <<tetrahedra, inserted, ret, triangulation, points, pointIndex,
                   started, timers, userStepped>>

\* click on Run All: runAllSteps() disables the buttons and calls next(),
\* which calls doNextStep() and schedules itself
runAllSteps ==
    /\ ~runAllBtnDisabled
    /\ started
    /\ timers < MaxTimers
    /\ doNextStep(TRUE, TRUE)
    /\ timers' = timers + 1
    /\ userStepped' = TRUE
    /\ UNCHANGED <<points, started>>

\* a pending timeout fires: next() calls doNextStep() and schedules itself again
next ==
    /\ timers > 0
    /\ doNextStep(nextBtnDisabled, runAllBtnDisabled)
    /\ UNCHANGED <<points, started, timers, userStepped>>

UINext ==
    \/ setupSimulation
    \/ NextClickBeforeStart
    \/ NextClick
    \/ RunAllClickBeforeStart
    \/ runAllSteps
    \/ next

UISpec == UIInit /\ [][UINext]_vars

---------------------------------------------------------------------------
(* Notions the properties are stated in *)

\* a face as the claims compare faces: the coordinate values of its 3
\* vertices, order ignored
FaceValue(face) == {Coords(face.a), Coords(face.b), Coords(face.c)}

\* the faces (with multiplicity) of a list of tetrahedra, as index pairs
FaceSlots(tetras) == (1..Len(tetras)) \X (1..4)

SlotValue(tetras, slot) == FaceValue(getFaces(tetras[slot[1]])[slot[2]])

\* how many faces of the tetrahedra have the value fv
FaceCount(tetras, fv) ==
    Cardinality({slot \in FaceSlots(tetras) : SlotValue(tetras, slot) = fv})

\* six times the signed volume of (a, b, c, q)
Orientation(a, b, c, q) == determinant(sub(a, q), sub(b, q), sub(c, q))

\* the super-tetrahedron vertices and the inserted points
HullPoints ==
    {delaunaySuperPoints[i] : i \in 1..4} \cup {inserted[i] : i \in 1..Len(inserted)}

\* the face lies on the boundary of the convex hull of HullPoints: all of
\* them are on one closed side of its plane
OnHullBoundary(face) ==
    \/ \A q \in HullPoints : Orientation(face.a, face.b, face.c, q) >= 0
    \/ \A q \in HullPoints : Orientation(face.a, face.b, face.c, q) <= 0

\* q is strictly inside the convex hull of the 4 super-tetrahedron vertices:
\* for each face, strictly on the side of the opposite vertex
SameStrictSide(a, b, c, opposite, q) ==
    \/ Orientation(a, b, c, opposite) > 0 /\ Orientation(a, b, c, q) > 0
    \/ Orientation(a, b, c, opposite) < 0 /\ Orientation(a, b, c, q) < 0

StrictlyInsideSuper(q) ==
    LET sp == delaunaySuperPoints
    IN  /\ SameStrictSide(sp[1], sp[2], sp[3], sp[4], q)
        /\ SameStrictSide(sp[1], sp[2], sp[4], sp[3], q)
        /\ SameStrictSide(sp[1], sp[3], sp[4], sp[2], q)
        /\ SameStrictSide(sp[2], sp[3], sp[4], sp[1], q)

\* p lies strictly inside the circumsphere of a non-degenerate tetrahedron
StrictlyInsideCircumsphere(tetra, p) ==
    \/ tetra.det > 0 /\ 0 > distanceDifference(tetra, p)
    \/ 0 > tetra.det /\ distanceDifference(tetra, p) > 0

\* p lies exactly on the circumsphere of a non-degenerate tetrahedron
OnCircumsphere(tetra, p) ==
    /\ tetra.det # 0
    /\ distanceDifference(tetra, p) = 0

InSeq(e, seq) == \E i \in 1..Len(seq) : seq[i] = e

\* this step is one addPoint call on the current Delaunay3D object
IsAddPointStep == Len(inserted') = Len(inserted) + 1

\* the point passed by that call
AddedPoint == inserted'[Len(inserted')]

---------------------------------------------------------------------------
(* Properties *)

\* C1 (Delaunay invariant): no inserted point that is not a vertex of a live
\* tetrahedron lies strictly inside that tetrahedron's circumsphere.
C1_DelaunayInvariant ==
    \A i \in 1..Len(tetrahedra) : \A j \in 1..Len(inserted) :
        ~containsPoint(tetrahedra[i], inserted[j])
            => ~circumsphereContains(tetrahedra[i], inserted[j])

\* C2 (valid complex): every face of a live tetrahedron belongs to at most two
\* live tetrahedra, and to exactly two unless it lies on the boundary of the
\* convex hull of the super-tetrahedron vertices and the inserted points.
C2_ValidComplex ==
    \A slot \in FaceSlots(tetrahedra) :
        LET face == getFaces(tetrahedra[slot[1]])[slot[2]]
            n == FaceCount(tetrahedra, FaceValue(face))
        IN  /\ n <= 2
            /\ ~OnHullBoundary(face) => n = 2

\* C3 (cavity closure): the cavity faces an addPoint call returns are exactly
\* the faces that belong to exactly one of the bad tetrahedra it returns, each
\* listed once.
C3_CavityClosure ==
    ret.called =>
        /\ \A i, j \in 1..Len(ret.cavityFaces) :
              FaceValue(ret.cavityFaces[i]) = FaceValue(ret.cavityFaces[j]) => i = j
        /\ {FaceValue(ret.cavityFaces[i]) : i \in 1..Len(ret.cavityFaces)}
             = {SlotValue(ret.badTetras, slot) : slot \in
                  {sl \in FaceSlots(ret.badTetras) :
                      FaceCount(ret.badTetras, SlotValue(ret.badTetras, sl)) = 1}}

\* C4 (super-tetrahedron enclosure): every point of the bounding box that is
\* generated and inserted lies strictly inside the convex hull of the 4
\* super-tetrahedron vertices.
C4_SuperEnclosure ==
    \A i \in 1..Len(inserted) : StrictlyInsideSuper(inserted[i])

\* the 4 faces of the super-tetrahedron
SuperFaces == getFaces(Delaunay3D(BOX_SIZE * 2)[1])

\* C5 (first insertion): the first addPoint call on a fresh triangulation
\* returns the super-tetrahedron as the only bad tetrahedron, its 4 faces as the
\* cavity, and 4 new tetrahedra, one per face joined with the point, which are
\* the live set afterwards.
C5_FirstInsertion ==
    Len(inserted) = 1 =>
        /\ ret.called
        /\ ret.badTetras = Delaunay3D(BOX_SIZE * 2)
        /\ Len(ret.cavityFaces) = 4
        /\ {FaceValue(ret.cavityFaces[i]) : i \in 1..Len(ret.cavityFaces)}
             = {FaceValue(SuperFaces[k]) : k \in 1..4}
        /\ Len(ret.newTetras) = 4
        /\ { {Coords(ret.newTetras[i].points[k]) : k \in 1..4} : i \in 1..Len(ret.newTetras) }
             = { FaceValue(SuperFaces[k]) \cup {Coords(inserted[1])} : k \in 1..4 }
        /\ tetrahedra = ret.newTetras

\* the first point inserted was a corner of the box outside the
\* super-tetrahedron's hull
C5_Witness ==
    /\ Len(inserted) = 1
    /\ Coords(inserted[1]) = <<BOX_SIZE \div 2, BOX_SIZE \div 2, BOX_SIZE \div 2>>
    /\ ~StrictlyInsideSuper(inserted[1])
    /\ Len(tetrahedra) = 4

\* C6 (conservation with exact deltas): an addPoint call removes exactly the
\* returned badTetras from the live set and adds exactly the returned
\* newTetras; every other tetrahedron stays, unchanged and in place, and the
\* live-set size changes by |newTetras| - |badTetras|.
C6_Conservation ==
    [][IsAddPointStep =>
        /\ \A i \in 1..Len(ret'.badTetras) : InSeq(ret'.badTetras[i], tetrahedra)
        /\ \A i \in 1..Len(tetrahedra) :
              InSeq(tetrahedra[i], ret'.badTetras) <=> ~InSeq(tetrahedra[i], tetrahedra')
        /\ \A i \in 1..Len(ret'.newTetras) :
              /\ InSeq(ret'.newTetras[i], tetrahedra')
              /\ ~InSeq(ret'.newTetras[i], tetrahedra)
        /\ \A i \in 1..Len(tetrahedra') :
              InSeq(tetrahedra'[i], ret'.newTetras) <=> ~InSeq(tetrahedra'[i], tetrahedra)
        /\ Len(tetrahedra') = Len(tetrahedra) - Len(ret'.badTetras) + Len(ret'.newTetras)
      ]_vars

C6_Witness ==
    /\ ret.called
    /\ Len(ret.badTetras) >= 2
    /\ Len(ret.newTetras) >= 4
    /\ Len(tetrahedra) > Len(ret.newTetras)

\* the live tetrahedra none of whose vertices has the coordinates of a
\* super-tetrahedron vertex
HasSuperVertex(tetra) ==
    \E i \in 1..4 : \E k \in 1..4 : equals(tetra.points[i], delaunaySuperPoints[k])

RealTetras(live) == SelectSeq(live, LAMBDA tetra : ~HasSuperVertex(tetra))

\* C7 (query filter): a getTriangulation result is exactly the live tetrahedra
\* without a super-tetrahedron vertex; the call leaves the live set as it is,
\* and a second call with no addPoint in between returns the same.
C7_QueryFilter ==
    /\ [](triangulation.valid => triangulation.tetras = RealTetras(tetrahedra))
    /\ [][triangulation'.valid =>
            /\ tetrahedra' = tetrahedra
            /\ triangulation.valid => triangulation'.tetras = triangulation.tetras
         ]_vars

C7_Witness ==
    /\ triangulation.valid
    /\ triangulation.tetras # <<>>
    /\ Len(triangulation.tetras) < Len(tetrahedra)

\* C8 (empty cavity): an addPoint call with a point that no live tetrahedron's
\* circumsphere strictly contains returns three empty lists and leaves the live
\* set as it is.
C8_EmptyCavityNoOp ==
    [][IsAddPointStep
         /\ (\A i \in 1..Len(tetrahedra) :
                ~StrictlyInsideCircumsphere(tetrahedra[i], AddedPoint))
        => /\ ret'.called
           /\ ret'.badTetras = <<>>
           /\ ret'.cavityFaces = <<>>
           /\ ret'.newTetras = <<>>
           /\ tetrahedra' = tetrahedra
      ]_vars

\* an addPoint call found no bad tetrahedron although its point lies exactly
\* on a live circumsphere and a live tetrahedron is degenerate
C8_Witness ==
    /\ ret.called
    /\ ret.badTetras = <<>>
    /\ ret.newTetras = <<>>
    /\ \E i \in 1..Len(tetrahedra) : circumcenterIsNull(tetrahedra[i])
    /\ \E i \in 1..Len(tetrahedra) :
          OnCircumsphere(tetrahedra[i], inserted[Len(inserted)])

\* C9 (step sequencing): the points inserted into the current triangulation
\* are points[0 .. pointIndex-1] in index order, pointIndex never exceeds
\* points.length, a step inserts at most one point, and once pointIndex equals
\* points.length only a restart changes the live set.
C9_StepSequencing ==
    /\ [](/\ pointIndex <= Len(points)
          /\ Len(inserted) = pointIndex
          /\ \A i \in 1..Len(inserted) : inserted[i] = points[i])
    /\ [][~(pointIndex' = 0 /\ inserted' = <<>>) =>
            /\ points' = points
            /\ pointIndex' \in {pointIndex, pointIndex + 1}
            /\ Len(inserted') <= Len(inserted) + 1
            /\ pointIndex = Len(points) =>
                  /\ tetrahedra' = tetrahedra
                  /\ inserted' = inserted
                  /\ pointIndex' = pointIndex
         ]_vars

\* all points were inserted and a Run-All chain has found the run complete
C9_Witness ==
    /\ started
    /\ Len(points) >= 2
    /\ pointIndex = Len(points)
    /\ timers >= 1
    /\ nextBtnDisabled

\* C10 (restart isolation): after setupSimulation, until Next or Run All is
\* clicked, pointIndex is 0 and the live set is the super-tetrahedron alone; and
\* at most one Run-All timer chain is active.
C10_RestartIsolation ==
    /\ started /\ ~userStepped =>
          /\ pointIndex = 0
          /\ tetrahedra = Delaunay3D(BOX_SIZE * 2)
    /\ timers <= 1

====
